---- MODULE Spec2Model ----
(***************************************************************************)
(* Model of w3af's abstract document parser, BaseParser                    *)
(* (src/w3af/core/data/parsers/baseparser.py, Python 2).                   *)
(*                                                                         *)
(* A Python 2 `str` is a sequence of byte values 0..255; a `unicode` is a  *)
(* sequence of code points.  Both are modelled as sequences of naturals,   *)
(* tagged with their kind ("str" or "unicode") where the code looks at it. *)
(***************************************************************************)
EXTENDS Integers, Sequences, FiniteSets, TLC

VARIABLES dIn, dOut, inst

vars == <<dIn, dOut, inst>>

(***************************************************************************)
(* Bounds of the model.                                                    *)
(***************************************************************************)
\* longest raw string handed to _decode_url in SpecDecode
MaxLen == 4
\* most _regex_url_parse calls on one parser instance
MaxCalls == 2

(***************************************************************************)
(* Generic sequence helpers.                                               *)
(***************************************************************************)
SeqsUpTo(A, n) == UNION {[1..k -> A] : k \in 0..n}

Drop(s, n) == SubSeq(s, n + 1, Len(s))

Take(s, n) == SubSeq(s, 1, n)

StartsWith(s, p) == Len(s) >= Len(p) /\ Take(s, Len(p)) = p

RECURSIVE Flatten(_)
Flatten(ss) == IF ss = <<>> THEN <<>> ELSE Head(ss) \o Flatten(Tail(ss))

(***************************************************************************)
(* Character sets of the codecs and of urllib.                             *)
(***************************************************************************)
\* urllib._hexdig = '0123456789ABCDEFabcdef'
IsHex(c) == c \in (48..57) \cup (65..70) \cup (97..102)

HexVal(c) == IF c \in 48..57 THEN c - 48
             ELSE IF c \in 65..70 THEN c - 55
             ELSE c - 87

\* a UTF-8 continuation byte, 10xxxxxx
IsCont(b) == b \in 128..191

(***************************************************************************)
(* The codecs behind str.decode / unicode.encode for the charsets of the   *)
(* model: "utf-8", "iso-8859-1" and "ascii" (CPython 2.7 semantics).        *)
(* A codec result is [ok |-> BOOLEAN, val |-> sequence]; ok = FALSE is a   *)
(* UnicodeDecodeError / UnicodeEncodeError.                                *)
(***************************************************************************)
\* w3af.core.data.constants.encodings.UTF8
UTF8 == "utf-8"

\* the charsets is_known_encoding accepts
KnownEncodings == {"utf-8", "iso-8859-1", "ascii"}

is_known_encoding(encoding) == encoding \in KnownEncodings

\* utf8_code_length[]: bytes of the sequence a lead byte opens, 0 = no lead
Utf8CodeLength(b) == IF b < 128 THEN 1
                     ELSE IF b \in 194..223 THEN 2
                     ELSE IF b \in 224..239 THEN 3
                     ELSE IF b \in 240..244 THEN 4
                     ELSE 0

\* continuation bytes at the front of s
RECURSIVE CountCont(_)
CountCont(s) == IF s # <<>> /\ IsCont(Head(s)) THEN 1 + CountCont(Tail(s)) ELSE 0

\* One step of the UTF-8 decoder at the front of a non-empty s:
\* [ok, n, cp]: a code point cp read from n bytes, or an error spanning n bytes.
Utf8Step(s) ==
    LET b1 == s[1]
        n  == Utf8CodeLength(b1)
        c(i) == s[i] - 128
    IN  IF n = 1 THEN [ok |-> TRUE, n |-> 1, cp |-> b1]
        ELSE IF n = 0 THEN [ok |-> FALSE, n |-> 1, cp |-> 0]
        ELSE IF Len(s) < n
             THEN [ok |-> FALSE, n |-> 1 + CountCont(Tail(s)), cp |-> 0]
        ELSE IF n = 2
             THEN IF IsCont(s[2])
                  THEN [ok |-> TRUE, n |-> 2, cp |-> (b1 - 192) * 64 + c(2)]
                  ELSE [ok |-> FALSE, n |-> 1, cp |-> 0]
        ELSE IF n = 3
             THEN IF IsCont(s[2]) /\ IsCont(s[3]) /\ ~(b1 = 224 /\ s[2] < 160)
                  THEN [ok |-> TRUE, n |-> 3,
                        cp |-> (b1 - 224) * 4096 + c(2) * 64 + c(3)]
                  ELSE [ok |-> FALSE, cp |-> 0,
                        n |-> 1 + (IF IsCont(s[2]) THEN 1 ELSE 0)]
        ELSE IF /\ IsCont(s[2]) /\ IsCont(s[3]) /\ IsCont(s[4])
                /\ ~(b1 = 240 /\ s[2] < 144) /\ ~(b1 = 244 /\ s[2] > 143)
             THEN [ok |-> TRUE, n |-> 4,
                   cp |-> (b1 - 240) * 262144 + c(2) * 4096 + c(3) * 64 + c(4)]
             ELSE [ok |-> FALSE, cp |-> 0,
                   n |-> 1 + (IF IsCont(s[2])
                              THEN 1 + (IF IsCont(s[3]) THEN 1 ELSE 0)
                              ELSE 0)]

\* str.decode('utf-8', errors), errors in {"strict", "ignore"}
RECURSIVE utf_8_decode(_, _)
utf_8_decode(s, errors) ==
    IF s = <<>> THEN [ok |-> TRUE, val |-> <<>>]
    ELSE LET st   == Utf8Step(s)
             rest == utf_8_decode(Drop(s, st.n), errors)
         IN  IF st.ok
             THEN [ok |-> rest.ok, val |-> <<st.cp>> \o rest.val]
             ELSE IF errors = "ignore" THEN rest
             ELSE [ok |-> FALSE, val |-> <<>>]

\* str.decode(enc, errors)
decode(s, enc, errors) ==
    IF enc = "utf-8" THEN utf_8_decode(s, errors)
    ELSE IF enc = "iso-8859-1" THEN [ok |-> TRUE, val |-> s]
    ELSE \* ascii
         IF errors = "ignore"
         THEN [ok |-> TRUE, val |-> SelectSeq(s, LAMBDA b : b < 128)]
         ELSE IF \A i \in 1..Len(s) : s[i] < 128
              THEN [ok |-> TRUE, val |-> s]
              ELSE [ok |-> FALSE, val |-> <<>>]

\* the UTF-8 bytes of one code point
Utf8Bytes(cp) ==
    IF cp < 128 THEN <<cp>>
    ELSE IF cp < 2048 THEN <<192 + (cp \div 64), 128 + (cp % 64)>>
    ELSE IF cp < 65536
         THEN <<224 + (cp \div 4096), 128 + ((cp \div 64) % 64), 128 + (cp % 64)>>
    ELSE <<240 + (cp \div 262144), 128 + ((cp \div 4096) % 64),
           128 + ((cp \div 64) % 64), 128 + (cp % 64)>>

\* unicode.encode(enc), errors = 'strict'
encode(u, enc) ==
    IF enc = "utf-8"
    THEN [ok |-> TRUE, val |-> Flatten([i \in 1..Len(u) |-> Utf8Bytes(u[i])])]
    ELSE LET top == IF enc = "iso-8859-1" THEN 256 ELSE 128
         IN  IF \A i \in 1..Len(u) : u[i] < top
             THEN [ok |-> TRUE, val |-> u]
             ELSE [ok |-> FALSE, val |-> <<>>]

(***************************************************************************)
(* urllib.unquote on a str and str.replace.                                *)
(***************************************************************************)
\* %XX with two hex digits becomes the byte, any other '%' stays as it is
RECURSIVE unquote(_)
unquote(s) ==
    IF s = <<>> THEN <<>>
    ELSE IF s[1] = 37 /\ Len(s) >= 3 /\ IsHex(s[2]) /\ IsHex(s[3])
         THEN <<16 * HexVal(s[2]) + HexVal(s[3])>> \o unquote(Drop(s, 3))
         ELSE <<s[1]>> \o unquote(Tail(s))

\* s.replace(sch, repl), sch not empty
RECURSIVE replace(_, _, _)
replace(s, sch, repl) ==
    IF s = <<>> THEN <<>>
    ELSE IF StartsWith(s, sch) THEN repl \o replace(Drop(s, Len(sch)), sch, repl)
    ELSE <<s[1]>> \o replace(Tail(s), sch, repl)

\* BaseParser.SAFE_CHARS = (('\x00', '%00'),)
SAFE_CHARS == << << <<0>>, <<37, 48, 48>> >> >>

\* mutant: the SAFE_CHARS loop is left out
ApplySafeChars_skipped(dec_url, table) == dec_url

\* for sch, repl in self.SAFE_CHARS: dec_url = dec_url.replace(sch, repl)
RECURSIVE ApplySafeChars(_, _)
ApplySafeChars(dec_url, table) ==
    IF table = <<>> THEN dec_url
    ELSE ApplySafeChars(replace(dec_url, Head(table)[1], Head(table)[2]),
                        Tail(table))

(***************************************************************************)
(* BaseParser._decode_url.  The argument is [kind, chars]; the result is   *)
(* [err, val]: err = "none" and the unicode string val, or the exception.  *)
(***************************************************************************)
\* lines 108-109: a unicode is encoded with the instance's charset
ToStr(url_string, enc) ==
    IF url_string.kind = "unicode" THEN encode(url_string.chars, enc)
    ELSE [ok |-> TRUE, val |-> url_string.chars]

\* lines 111-113: unquote, then the SAFE_CHARS substitutions
SafeBytes(bytes) == ApplySafeChars(unquote(bytes), SAFE_CHARS)

\* mutant: the declared charset is tried first, UTF-8 is the fallback
DecodeBytes_charset_first(dec_url, enc) ==
    LET first == decode(dec_url, enc, "strict")
    IN  IF first.ok THEN first ELSE decode(dec_url, UTF8, "ignore")

\* lines 119-122: UTF-8 first, the declared charset with 'ignore' second
DecodeBytes(dec_url, enc) ==
    LET first == decode(dec_url, UTF8, "strict")
    IN  IF first.ok THEN first ELSE decode(dec_url, enc, "ignore")

_decode_url(url_string, enc) ==
    LET wire == ToStr(url_string, enc)
    IN  IF ~wire.ok THEN [err |-> "UnicodeEncodeError", val |-> <<>>]
        ELSE LET out == DecodeBytes(SafeBytes(wire.val), enc)
             IN  IF out.ok THEN [err |-> "none", val |-> out.val]
                 ELSE [err |-> "UnicodeDecodeError", val |-> <<>>]

(***************************************************************************)
(* SpecDecode: _decode_url as a pure function over bounded inputs.         *)
(***************************************************************************)
\* bytes of a raw str: NUL % 0 e, and the non-ASCII bytes C3 A9 EE
ByteAlphabet == {0, 37, 48, 101, 195, 169, 238}

\* code points of a raw unicode: NUL % 0 e, U+00E9 and U+20AC
CodeAlphabet == {0, 37, 48, 101, 233, 8364}

DecodeInputs ==
    {[kind |-> "str", chars |-> s] : s \in SeqsUpTo(ByteAlphabet, MaxLen)}
    \cup {[kind |-> "unicode", chars |-> s] : s \in SeqsUpTo(CodeAlphabet, MaxLen)}

DecodeInit ==
    /\ dIn \in [url_string : DecodeInputs, enc : KnownEncodings]
    /\ dOut = [err |-> "pending", val |-> <<>>]
    /\ inst = <<>>

DecodeCall ==
    /\ dOut.err = "pending"
    /\ dOut' = _decode_url(dIn.url_string, dIn.enc)
    /\ UNCHANGED <<dIn, inst>>

SpecDecode == DecodeInit /\ [][DecodeCall]_vars

(***************************************************************************)
(* Properties of _decode_url (checked under SpecDecode).                   *)
(***************************************************************************)
Range(s) == {s[i] : i \in 1..Len(s)}

RECURSIVE IsSubseq(_, _)
IsSubseq(a, b) ==
    IF a = <<>> THEN TRUE
    ELSE IF b = <<>> THEN FALSE
    ELSE IF Head(a) = Head(b) THEN IsSubseq(Tail(a), Tail(b))
    ELSE IsSubseq(a, Tail(b))

\* the pieces of s between its NUL bytes (one more piece than NULs)
RECURSIVE SplitAtNul(_)
SplitAtNul(s) ==
    IF 0 \notin Range(s) THEN <<s>>
    ELSE LET i == CHOOSE k \in 1..Len(s) : s[k] = 0 /\ \A j \in 1..(k - 1) : s[j] # 0
         IN  <<Take(s, i - 1)>> \o SplitAtNul(Drop(s, i))

RECURSIVE JoinWith(_, _)
JoinWith(sep, parts) ==
    IF Len(parts) = 1 THEN parts[1]
    ELSE parts[1] \o sep \o JoinWith(sep, Tail(parts))

\* one well-formed UTF-8 unit (as CPython 2.7 accepts them)
Utf8Unit(u) ==
    \/ Len(u) = 1 /\ u[1] < 128
    \/ Len(u) = 2 /\ u[1] \in 194..223 /\ IsCont(u[2])
    \/ /\ Len(u) = 3 /\ u[1] \in 224..239 /\ IsCont(u[2]) /\ IsCont(u[3])
       /\ (u[1] = 224 => u[2] >= 160)
    \/ /\ Len(u) = 4 /\ u[1] \in 240..244
       /\ IsCont(u[2]) /\ IsCont(u[3]) /\ IsCont(u[4])
       /\ (u[1] = 240 => u[2] >= 144) /\ (u[1] = 244 => u[2] <= 143)

RECURSIVE Utf8WellFormed(_)
Utf8WellFormed(b) ==
    \/ b = <<>>
    \/ \E n \in 1..4 : /\ n <= Len(b)
                       /\ Utf8Unit(Take(b, n))
                       /\ Utf8WellFormed(Drop(b, n))

\* the bytes on the wire and after percent-unescaping, of the call in dIn
dWire == ToStr(dIn.url_string, dIn.enc)

dUnquoted == unquote(dWire.val)

dReturned == dOut.err = "none"

\* C8: every NUL byte left by percent-unescaping (a literal NUL or the escape
\* %00) shows in the decoded string as the three characters %00 at that
\* position: the decoded string is the decoded pieces between the NULs joined
\* by "%00", and it holds no raw NUL character.
C8_NulBecomesEscape ==
    dReturned =>
        LET segs  == SplitAtNul(dUnquoted)
            allOk == \A i \in 1..Len(segs) : Utf8WellFormed(segs[i])
            text(seg) == IF allOk THEN decode(seg, UTF8, "strict").val
                         ELSE decode(seg, dIn.enc, "ignore").val
        IN  /\ 0 \notin Range(dOut.val)
            /\ dOut.val = JoinWith(<<37, 48, 48>>,
                                   [i \in 1..Len(segs) |-> text(segs[i])])

\* a literal NUL and an escaped one, both decoded to "%00"
C8_Witness ==
    /\ dReturned
    /\ dIn.url_string = [kind |-> "str", chars |-> <<0, 37, 48, 48>>]
    /\ dOut.val = <<37, 48, 48, 37, 48, 48>>

\* C10: once the bytes exist (the input was a str, or the unicode could be
\* encoded), the decoder returns; when the bytes after unescaping and NUL
\* substitution are well-formed UTF-8 the result is their UTF-8 reading
\* whatever the declared charset is (re-encoding it in UTF-8 gives the bytes
\* back); otherwise it is their reading under the declared charset with the
\* undecodable bytes dropped.
C10_Utf8ThenCharset ==
    (dOut.err # "pending" /\ dWire.ok) =>
        LET b == SafeBytes(dWire.val)
        IN  /\ dOut.err = "none"
            /\ Utf8WellFormed(b) => encode(dOut.val, UTF8).val = b
            /\ ~Utf8WellFormed(b) =>
                 CASE dIn.enc = "iso-8859-1" -> dOut.val = b
                   [] dIn.enc = "ascii" ->
                        dOut.val = SelectSeq(b, LAMBDA x : x < 128)
                   [] OTHER ->
                        /\ IsSubseq(encode(dOut.val, UTF8).val, b)
                        /\ dOut.val = decode(b, UTF8, "ignore").val

\* the escape %ee under iso-8859-1: not UTF-8, read as U+00EE by the fallback
C10_Witness ==
    /\ dReturned
    /\ dIn.url_string = [kind |-> "str", chars |-> <<101, 37, 101, 101>>]
    /\ dIn.enc = "iso-8859-1"
    /\ dOut.val = <<101, 238>>

(***************************************************************************)
(* The URL value type (w3af.core.data.parsers.url.URL), a collaborator of  *)
(* BaseParser.  Modelled from its documented contract: construction        *)
(* validates, normalize_url() is idempotent and mutates in place, and      *)
(* equality is not changed by normalization.  A URL object is the record   *)
(* [url_string, match]; match is the raw regex match it was built from     *)
(* (a history value, not an attribute of the object).                      *)
(***************************************************************************)
\* index of the first element of s that is in stops, Len(s) + 1 if none
RECURSIVE FirstOf(_, _)
FirstOf(s, stops) ==
    IF s = <<>> \/ Head(s) \in stops THEN 1 ELSE 1 + FirstOf(Tail(s), stops)

\* the text after "scheme://"; the whole text if there is no "://"
RECURSIVE AfterScheme(_)
AfterScheme(s) ==
    IF s = <<>> THEN <<>>
    ELSE IF StartsWith(s, <<58, 47, 47>>) THEN Drop(s, 3)
    ELSE AfterScheme(Tail(s))

SchemePart(s) == Take(s, Len(s) - Len(AfterScheme(s)))

\* the network location: up to the first of / ? #
Netloc(s) == Take(AfterScheme(s), FirstOf(AfterScheme(s), {47, 63, 35}) - 1)

AfterNetloc(s) == Drop(AfterScheme(s), Len(Netloc(s)))

Lower(s) == [i \in 1..Len(s) |-> IF s[i] \in 65..90 THEN s[i] + 32 ELSE s[i]]

\* URL.normalize_url applied to the text of a URL: lower-case network
\* location, "/" as the path of a URL that has none
normalize_url(url_string) ==
    SchemePart(url_string) \o Lower(Netloc(url_string))
        \o (IF AfterNetloc(url_string) = <<>> THEN <<47>>
            ELSE AfterNetloc(url_string))

\* URL(data, encoding): ValueError for an unknown encoding or an empty
\* network location
URL(data, encoding) ==
    IF ~is_known_encoding(encoding) \/ Netloc(data) = <<>>
    THEN [err |-> "ValueError", url_string |-> <<>>]
    ELSE [err |-> "none", url_string |-> data]

\* URL.__eq__ (and __hash__): the same URL once normalized
URL_eq(a, b) == normalize_url(a.url_string) = normalize_url(b.url_string)

\* URL.get_domain: the network location without its port
get_domain(url_string) ==
    Take(Netloc(url_string), FirstOf(Netloc(url_string), {58}) - 1)

\* the labels after the first dot of a name with more than two labels
RECURSIVE LastTwoLabels(_)
LastTwoLabels(name) ==
    IF Cardinality({i \in 1..Len(name) : name[i] = 46}) <= 1 THEN name
    ELSE LastTwoLabels(Drop(name, FirstOf(name, {46})))

\* URL.get_root_domain
get_root_domain(url_string) == LastTwoLabels(get_domain(url_string))

(***************************************************************************)
(* BaseParser.URL_RE.findall: every non-overlapping match of the pattern   *)
(* "http" or "https", then "://", then a lazy run of host characters, then *)
(* a greedy run of anything but whitespace, quotes and angle brackets.     *)
(* The greedy run takes every character up to the next delimiter, so a     *)
(* match is the scheme, "://" and that run.                                *)
(***************************************************************************)
\* space \n \r \t " ' < >
Delimiters == {32, 10, 13, 9, 34, 39, 60, 62}

SchemeLen(s) == IF StartsWith(s, <<104, 116, 116, 112, 58, 47, 47>>) THEN 7
                ELSE IF StartsWith(s, <<104, 116, 116, 112, 115, 58, 47, 47>>) THEN 8
                ELSE 0

RECURSIVE URL_RE_findall(_)
URL_RE_findall(s) ==
    IF s = <<>> THEN <<>>
    ELSE LET k == SchemeLen(s)
         IN  IF k = 0 THEN URL_RE_findall(Tail(s))
             ELSE LET n == k + FirstOf(Drop(s, k), Delimiters) - 1
                  IN  <<Take(s, n)>> \o URL_RE_findall(Drop(s, n))

(***************************************************************************)
(* Inputs: HTTP responses and document bodies.                             *)
(***************************************************************************)
\* Python's None, for an absent redirect URL
None == <<>>

\* "http://w.a.io/"
UrlA == <<104, 116, 116, 112, 58, 47, 47, 119, 46, 97, 46, 105, 111, 47>>

\* "http://b.io:81/x"
UrlB == <<104, 116, 116, 112, 58, 47, 47, 98, 46, 105, 111, 58, 56,
        49, 47, 120>>

Charsets == KnownEncodings \cup {"bogus-enc-9999"}

\* http_response: get_charset(), get_url(), get_redir_url()
Responses == [charset : Charsets, url : {UrlA, UrlB}, redir : {None, UrlA, UrlB}]

Docs == <<
    \* the same URL twice, not yet normal
    [kind |-> "str",
     chars |-> <<104, 116, 116, 112, 58, 47, 47, 65, 32, 104, 116,
               116, 112, 58, 47, 47, 65>>],
    \* two matches with one normal form
    [kind |-> "str",
     chars |-> <<104, 116, 116, 112, 58, 47, 47, 65, 32, 120, 32,
               104, 116, 116, 112, 58, 47, 47, 97, 47>>],
    \* a match URL() rejects, then a good one
    [kind |-> "str",
     chars |-> <<104, 116, 116, 112, 58, 47, 47, 32, 104, 116, 116,
               112, 58, 47, 47, 97, 47, 98>>],
    \* U+00E9: not encodable in ascii
    [kind |-> "unicode",
     chars |-> <<104, 116, 116, 112, 58, 47, 47, 97, 47, 233, 32, 60,
               104, 116, 116, 112, 58, 47, 47, 98, 47, 62>>],
    \* no match
    [kind |-> "str",
     chars |-> <<110, 111, 32, 117, 114, 108, 32, 104, 101, 114,
               101>>],
    \* a literal NUL and an escaped one
    [kind |-> "str",
     chars |-> <<39, 104, 116, 116, 112, 115, 58, 47, 47, 97, 47, 0,
               37, 48, 48, 39>>],
    \* an escaped byte that is not UTF-8
    [kind |-> "str",
     chars |-> <<104, 116, 116, 112, 58, 47, 47, 97, 47, 37, 101,
               101>>] >>

DocIds == 1..Len(Docs)

\* the matches of a document, each with the kind (str/unicode) of the body
Matches(doc_str) ==
    LET found == URL_RE_findall(doc_str.chars)
    IN  [i \in 1..Len(found) |-> [kind |-> doc_str.kind, chars |-> found[i]]]

(***************************************************************************)
(* A parser instance.  attrs is the set of attributes __init__ has         *)
(* assigned; raised is the exception the last operation let escape.        *)
(***************************************************************************)
AllAttrs == {"_base_url", "_baseDomain", "_rootDomain", "_encoding", "_re_urls"}

Capabilities == {"get_forms", "get_references", "get_emails", "get_comments",
                 "get_scripts", "get_meta_redir", "get_meta_tags"}

NoCall == [cap |-> "none", raised |-> "none", value |-> <<>>]

NewObject(cls) ==
    [state |-> "none", cls |-> cls, resp |-> [charset |-> "", url |-> <<>>, redir |-> None],
     attrs |-> {}, base_url |-> <<>>, baseDomain |-> <<>>, rootDomain |-> <<>>,
     encoding |-> "", re_urls |-> <<>>, raised |-> "none",
     todo |-> <<>>, history |-> <<>>, lastCall |-> NoCall]

\* mutant: the charset is validated after the attributes are assigned
__init___validates_last(self, http_response) ==
    LET url == IF http_response.redir # None THEN http_response.redir
               ELSE http_response.url
        set == [self EXCEPT !.base_url = url,
                            !.baseDomain = get_domain(url),
                            !.rootDomain = get_root_domain(url),
                            !.encoding = http_response.charset,
                            !.re_urls = <<>>,
                            !.attrs = AllAttrs]
    IN  IF ~is_known_encoding(http_response.charset)
        THEN [set EXCEPT !.raised = "ValueError"]
        ELSE set

\* mutant: the redirect URL is ignored
__init___ignores_redirect(self, http_response) ==
    IF ~is_known_encoding(http_response.charset)
    THEN [self EXCEPT !.raised = "ValueError"]
    ELSE [self EXCEPT !.base_url = http_response.url,
                      !.baseDomain = get_domain(http_response.url),
                      !.rootDomain = get_root_domain(http_response.url),
                      !.encoding = http_response.charset,
                      !.re_urls = <<>>,
                      !.attrs = AllAttrs]

\* BaseParser.__init__
__init__(self, http_response) ==
    LET encoding == http_response.charset
    IN  IF ~is_known_encoding(encoding)
        THEN [self EXCEPT !.raised = "ValueError"]
        ELSE LET url == IF http_response.redir # None THEN http_response.redir
                        ELSE http_response.url
             IN  [self EXCEPT !.base_url = url,
                              !.baseDomain = get_domain(url),
                              !.rootDomain = get_root_domain(url),
                              !.encoding = http_response.charset,
                              !.re_urls = <<>>,
                              !.attrs = AllAttrs]

(***************************************************************************)
(* BaseParser._regex_url_parse.  The set self._re_urls is a sequence of    *)
(* URL objects without equal members (its order stands for nothing).       *)
(***************************************************************************)
\* mutant: a list instead of a set, every object is appended
set_add_appends(re_urls, url) == Append(re_urls, url)

\* mutant: members are compared by their current text, not by URL equality
set_add_by_text(re_urls, url) ==
    IF \E i \in 1..Len(re_urls) : re_urls[i].url_string = url.url_string
    THEN re_urls
    ELSE Append(re_urls, url)

\* re_urls.add(decoded_url): nothing is added when an equal member is there
set_add(re_urls, url) ==
    IF \E i \in 1..Len(re_urls) : URL_eq(re_urls[i], url)
    THEN re_urls
    ELSE Append(re_urls, url)

\* mutant: only UnicodeDecodeError is caught
Caught_decode_errors_only(exc) == exc = "UnicodeDecodeError"

\* except ValueError: the class and its subclasses
Caught(exc) == exc \in {"ValueError", "UnicodeError",
                        "UnicodeDecodeError", "UnicodeEncodeError"}

\* lines 77-78: URL(self._decode_url(url[0]), encoding=self._encoding)
DecodedURL(url, enc) ==
    LET dec == _decode_url(url, enc)
    IN  IF dec.err # "none" THEN [err |-> dec.err, url_string |-> <<>>]
        ELSE URL(dec.val, enc)

\* lines 76-82: one pass of the loop body; acc is [re_urls, raised]
LoopBody(acc, url, enc) ==
    LET decoded_url == DecodedURL(url, enc)
    IN  IF decoded_url.err = "none"
        THEN [acc EXCEPT !.re_urls =
                 set_add(@, [url_string |-> decoded_url.url_string, match |-> url])]
        ELSE IF Caught(decoded_url.err) THEN acc
        ELSE [acc EXCEPT !.raised = decoded_url.err]

\* lines 73-82: the loop ends with the matches, or with an escaping exception
RECURSIVE Loop(_, _, _)
Loop(acc, matches, enc) ==
    IF matches = <<>> \/ acc.raised # "none" THEN acc
    ELSE Loop(LoopBody(acc, Head(matches), enc), Tail(matches), enc)

\* mutant: the map is never evaluated (a lazy map), nothing is normalized
NormalizeAll_lazy(re_urls) == re_urls

\* line 85: map(lambda u: u.normalize_url(), re_urls), in place
NormalizeAll(re_urls) ==
    [i \in 1..Len(re_urls) |->
        [re_urls[i] EXCEPT !.url_string = normalize_url(@)]]

_regex_url_parse(self, doc_str) ==
    LET done == Loop([re_urls |-> self.re_urls, raised |-> "none"],
                     Matches(doc_str), self.encoding)
    IN  IF done.raised # "none"
        THEN [self EXCEPT !.re_urls = done.re_urls, !.raised = done.raised]
        ELSE [self EXCEPT !.re_urls = NormalizeAll(done.re_urls),
                          !.raised = "none"]

(***************************************************************************)
(* The capability set.  A concrete parser class binds each capability to   *)
(* its own implementation ("own"), to _return_empty_list, or leaves the    *)
(* method of BaseParser in place ("base").                                 *)
(***************************************************************************)
\* get_forms .. get_meta_tags of BaseParser
BaseMethod(cap) == [cap |-> cap, raised |-> "NotImplementedError", value |-> <<>>]

\* mutant: the default signals an error too
_return_empty_list_raises(cap) ==
    [cap |-> cap, raised |-> "NotImplementedError", value |-> <<>>]

\* BaseParser._return_empty_list, bound to the capability cap
_return_empty_list(cap) == [cap |-> cap, raised |-> "none", value |-> <<>>]

\* a format-specific implementation: some artifacts of the document
OwnMethod(cap) == [cap |-> cap, raised |-> "none", value |-> <<"artifact">>]

ParserClasses == {"BaseParser", "PartialParser"}

\* BaseParser itself, and a subclass written the way the docstring of
\* _return_empty_list describes (get_forms = _return_empty_list, ...)
Binding(cls, cap) ==
    IF cls = "BaseParser" THEN "base"
    ELSE IF cap = "get_references" THEN "own"
    ELSE IF cap \in {"get_forms", "get_comments", "get_meta_redir"}
         THEN "_return_empty_list"
    ELSE "base"

\* the call self.<cap>() on an instance of class cls
Dispatch(cls, cap) ==
    IF Binding(cls, cap) = "own" THEN OwnMethod(cap)
    ELSE IF Binding(cls, cap) = "_return_empty_list" THEN _return_empty_list(cap)
    ELSE BaseMethod(cap)

(***************************************************************************)
(* Spec: one parser instance; each operation is one action.                *)
(***************************************************************************)
Idle == [url_string |-> [kind |-> "str", chars |-> <<>>], enc |-> UTF8]

Init ==
    /\ inst = [p \in {1} |-> NewObject("BaseParser")]
    /\ dIn = Idle
    /\ dOut = [err |-> "pending", val |-> <<>>]

\* parser = cls(http_response)
Construct(p, cls, http_response) ==
    /\ inst[p].state = "none"
    /\ LET built == __init__([NewObject(cls) EXCEPT !.resp = http_response],
                             http_response)
       IN  inst' = [inst EXCEPT ![p] =
                       [built EXCEPT !.state = IF built.raised = "none"
                                               THEN "ready" ELSE "failed"]]
    /\ UNCHANGED <<dIn, dOut>>

\* parser._regex_url_parse(doc_str), the whole call
RegexUrlParse(p, d) ==
    /\ inst[p].state = "ready"
    /\ Len(inst[p].history) < MaxCalls
    /\ inst' = [inst EXCEPT ![p] =
                   [_regex_url_parse(inst[p], Docs[d])
                       EXCEPT !.history = Append(@, d)]]
    /\ UNCHANGED <<dIn, dOut>>

DoConstruct ==
    \E p \in DOMAIN inst, cls \in ParserClasses, r \in Responses :
        Construct(p, cls, r)

DoRegexUrlParse == \E p \in DOMAIN inst, d \in DocIds : RegexUrlParse(p, d)

Next == DoConstruct \/ DoRegexUrlParse

Spec == Init /\ [][Next]_vars

(***************************************************************************)
(* SpecCaps: one parser instance and the calls of its capability set.      *)
(***************************************************************************)
\* parser.<cap>()
CallCapability(p, cap) ==
    /\ inst[p].state = "ready"
    /\ inst' = [inst EXCEPT ![p].lastCall = Dispatch(inst[p].cls, cap)]
    /\ UNCHANGED <<dIn, dOut>>

DoCallCapability ==
    \E p \in DOMAIN inst, cap \in Capabilities : CallCapability(p, cap)

NextCaps == DoConstruct \/ DoCallCapability

SpecCaps == Init /\ [][NextCaps]_vars

(***************************************************************************)
(* SpecPair: two parser instances, each driven by its own thread; the      *)
(* steps of _regex_url_parse (the loop passes, the final map) interleave.  *)
(***************************************************************************)
\* mutant: _re_urls is an attribute of the class, one set for all instances
StoreSet_shared(insts, p, re_urls) ==
    [q \in DOMAIN insts |-> [insts[q] EXCEPT !.re_urls = re_urls]]

\* line 71: re_urls is self._re_urls, the set of this instance
StoreSet(insts, p, re_urls) == [insts EXCEPT ![p].re_urls = re_urls]

PairResponses ==
    {[charset |-> "utf-8", url |-> UrlA, redir |-> None],
     [charset |-> "ascii", url |-> UrlA, redir |-> UrlB]}

PairDocIds == {2, 3, 4}

InitPair ==
    /\ inst = [p \in {1, 2} |-> NewObject("BaseParser")]
    /\ dIn = Idle
    /\ dOut = [err |-> "pending", val |-> <<>>]

ConstructPair == \E p \in DOMAIN inst, r \in PairResponses :
                     Construct(p, "BaseParser", r)

\* the call starts: findall has produced the matches
BeginParse ==
    \E p \in DOMAIN inst, d \in PairDocIds :
        /\ inst[p].state = "ready"
        /\ Len(inst[p].history) < MaxCalls
        /\ inst' = [inst EXCEPT ![p].state = "scanning",
                                ![p].todo = Matches(Docs[d]),
                                ![p].raised = "none",
                                ![p].history = Append(@, d)]
        /\ UNCHANGED <<dIn, dOut>>

\* one pass of the loop
ScanStep ==
    \E p \in DOMAIN inst :
        /\ inst[p].state = "scanning"
        /\ inst[p].todo # <<>>
        /\ LET acc == LoopBody([re_urls |-> inst[p].re_urls, raised |-> "none"],
                               Head(inst[p].todo), inst[p].encoding)
           IN  inst' = IF acc.raised # "none"
                       THEN [inst EXCEPT ![p].state = "ready",
                                         ![p].todo = <<>>,
                                         ![p].raised = acc.raised]
                       ELSE [StoreSet(inst, p, acc.re_urls)
                                EXCEPT ![p].todo = Tail(@)]
        /\ UNCHANGED <<dIn, dOut>>

\* the final map, and the return
FinishParse ==
    \E p \in DOMAIN inst :
        /\ inst[p].state = "scanning"
        /\ inst[p].todo = <<>>
        /\ inst' = [StoreSet(inst, p, NormalizeAll(inst[p].re_urls))
                       EXCEPT ![p].state = "ready"]
        /\ UNCHANGED <<dIn, dOut>>

NextPair == ConstructPair \/ BeginParse \/ ScanStep \/ FinishParse

SpecPair == InitPair /\ [][NextPair]_vars

(***************************************************************************)
(* Properties of construction (checked under Spec).                        *)
(***************************************************************************)
Built(p) == inst[p].state # "none"

Ready(p) == inst[p].state = "ready"

\* C1: constructing a parser from a response whose charset the encoding
\* validator rejects fails with the unknown-encoding error before any other
\* step: no attribute (base URL, base domain, root domain, charset, result
\* set) is assigned, and the instance is never usable.
C1_RejectedCharsetIsFatal ==
    \A p \in DOMAIN inst :
        (Built(p) /\ ~is_known_encoding(inst[p].resp.charset)) =>
            /\ inst[p].state = "failed"
            /\ inst[p].raised = "ValueError"
            /\ inst[p].attrs = {}
            /\ inst[p].base_url = <<>>
            /\ inst[p].baseDomain = <<>>
            /\ inst[p].rootDomain = <<>>
            /\ inst[p].history = <<>>

\* a construction with the charset "bogus-enc-9999" and a redirect has failed
C1_Witness ==
    \E p \in DOMAIN inst :
        /\ inst[p].state = "failed"
        /\ inst[p].resp.charset = "bogus-enc-9999"
        /\ inst[p].resp.redir = UrlB

\* C2: for a response with a known charset the parser's base URL is the
\* redirect URL when there is one and the response's own URL otherwise, and
\* the stored base domain and root domain are those of that base URL.
C2_RedirectPrecedence ==
    \A p \in DOMAIN inst :
        (Built(p) /\ is_known_encoding(inst[p].resp.charset)) =>
            LET r   == inst[p].resp
                eff == IF r.redir # None THEN r.redir ELSE r.url
            IN  /\ Ready(p)
                /\ inst[p].attrs = AllAttrs
                /\ inst[p].base_url = eff
                /\ inst[p].baseDomain = get_domain(eff)
                /\ inst[p].rootDomain = get_root_domain(eff)
                /\ inst[p].encoding = r.charset

\* a redirect to another host: the domains are the redirect's ("b.io"), not
\* those of the response's own URL ("w.a.io", "a.io")
C2_Witness ==
    \E p \in DOMAIN inst :
        /\ Ready(p)
        /\ inst[p].resp.url = UrlA
        /\ inst[p].resp.redir = UrlB
        /\ inst[p].baseDomain = <<98, 46, 105, 111>>
        /\ inst[p].rootDomain = <<98, 46, 105, 111>>
        /\ get_domain(inst[p].resp.url) = <<119, 46, 97, 46, 105, 111>>

(***************************************************************************)
(* Properties of the capability set (checked under SpecCaps).              *)
(***************************************************************************)
Called(p) == inst[p].lastCall.cap # "none"

\* C3 as stated: a capability the concrete parser does not implement returns
\* an empty sequence when called and signals no error.
C3_Original ==
    \A p \in DOMAIN inst :
        (Called(p) /\ Binding(inst[p].cls, inst[p].lastCall.cap) # "own") =>
            /\ inst[p].lastCall.raised = "none"
            /\ inst[p].lastCall.value = <<>>

\* C3 amended: a capability the concrete parser binds to _return_empty_list
\* returns an empty sequence and signals no error; one it neither implements
\* nor binds to that default raises NotImplementedError.
C3_Amended ==
    \A p \in DOMAIN inst :
        Called(p) =>
            LET bound == Binding(inst[p].cls, inst[p].lastCall.cap)
            IN  /\ bound = "_return_empty_list" =>
                      /\ inst[p].lastCall.raised = "none"
                      /\ inst[p].lastCall.value = <<>>
                /\ bound = "base" =>
                      inst[p].lastCall.raised = "NotImplementedError"

\* get_forms of a class that binds it to _return_empty_list was called
C3_Witness ==
    \E p \in DOMAIN inst :
        /\ inst[p].cls = "PartialParser"
        /\ inst[p].lastCall = [cap |-> "get_forms", raised |-> "none", value |-> <<>>]

(***************************************************************************)
(* Properties of the regex extraction (checked under Spec).                *)
(***************************************************************************)
\* every match of every document the instance has scanned
Candidates(p) ==
    UNION {Range(Matches(Docs[inst[p].history[i]])) : i \in 1..Len(inst[p].history)}

\* the match decodes and URL() accepts the decoded text
Constructible(url, enc) == DecodedURL(url, enc).err = "none"

Members(p) == Range(inst[p].re_urls)

\* C4: the extraction never fails: no exception escapes it; a match whose
\* decoding or URL construction fails is not in the result set, and every
\* other match of the scanned documents, also one that comes after a failing
\* match, is represented in it.
C4_NeverFails ==
    \A p \in DOMAIN inst :
        Ready(p) =>
            /\ inst[p].raised = "none"
            /\ \A c \in Candidates(p) :
                  IF Constructible(c, inst[p].encoding)
                  THEN \E m \in Members(p) :
                          m.url_string =
                              normalize_url(DecodedURL(c, inst[p].encoding).url_string)
                  ELSE \A m \in Members(p) : m.match # c

\* "http://a/<U+00E9> <http://b/>" under ascii: the first match cannot be
\* encoded and is dropped, the second one is in the set
C4_Witness ==
    \E p \in DOMAIN inst :
        /\ Ready(p)
        /\ inst[p].encoding = "ascii"
        /\ inst[p].history = <<4>>
        /\ inst[p].raised = "none"
        /\ {m.url_string : m \in Members(p)} = {<<104, 116, 116, 112, 58, 47, 47, 98, 47>>}

\* C5: after any sequence of extraction calls every member of the result set
\* is a URL whose construction succeeded and which has been normalized.
C5_MembersValidAndNormalized ==
    \A p \in DOMAIN inst :
        Ready(p) =>
            \A m \in Members(p) :
                /\ m.match \in Candidates(p)
                /\ Constructible(m.match, inst[p].encoding)
                /\ URL(m.url_string, inst[p].encoding).err = "none"
                /\ normalize_url(m.url_string) = m.url_string
                /\ m.url_string =
                      normalize_url(DecodedURL(m.match, inst[p].encoding).url_string)

\* the match "http://A" is in the set as "http://a/", and the rejected match
\* "http://" of a later document is not
C5_Witness ==
    \E p \in DOMAIN inst :
        /\ Ready(p)
        /\ inst[p].history = <<1, 3>>
        /\ {m.url_string : m \in Members(p)} = {<<104, 116, 116, 112, 58, 47, 47, 97, 47>>, <<104, 116, 116, 112, 58, 47, 47, 97, 47, 98>>}

\* C6: after an extraction call no two members of the result set have the
\* same normalized value, also when two different matches normalize to the
\* same URL.
C6_UniqueByNormalizedValue ==
    \A p \in DOMAIN inst :
        Ready(p) =>
            \A i, j \in 1..Len(inst[p].re_urls) :
                i # j => normalize_url(inst[p].re_urls[i].url_string)
                            # normalize_url(inst[p].re_urls[j].url_string)

\* "http://A x http://a/": two matches, one member
C6_Witness ==
    \E p \in DOMAIN inst :
        /\ Ready(p)
        /\ inst[p].history = <<2>>
        /\ Len(inst[p].re_urls) = 1
        /\ inst[p].re_urls[1].url_string = <<104, 116, 116, 112, 58, 47, 47, 97, 47>>

\* C7: when every match the instance has processed, in one call or over
\* several calls, is the same valid URL string, the result set has exactly
\* one entry.
C7_SameMatchOnce ==
    \A p \in DOMAIN inst :
        (/\ Ready(p)
         /\ Cardinality(Candidates(p)) = 1
         /\ \A c \in Candidates(p) : Constructible(c, inst[p].encoding))
            => Len(inst[p].re_urls) = 1

\* "http://A http://A" scanned twice: four matches, one member
C7_Witness ==
    \E p \in DOMAIN inst :
        /\ Ready(p)
        /\ inst[p].history = <<1, 1>>
        /\ Len(inst[p].re_urls) = 1

(***************************************************************************)
(* Properties of two instances (checked under SpecPair).                   *)
(***************************************************************************)
\* the result set of an instance that made the calls of history alone
RECURSIVE RunAlone(_, _)
RunAlone(self, history) ==
    IF history = <<>> THEN self
    ELSE RunAlone(_regex_url_parse(self, Docs[Head(history)]), Tail(history))

Fresh(p) == __init__([NewObject(inst[p].cls) EXCEPT !.resp = inst[p].resp],
                     inst[p].resp)

\* C9: a step of one instance changes no other instance (its result set,
\* charset and base URL stay as they are), and whenever an instance is
\* between calls its result set is the one it would have had if it had made
\* its calls alone.
C9_InstancesAreIndependent ==
    /\ [](\A p \in DOMAIN inst :
            Ready(p) => inst[p].re_urls = RunAlone(Fresh(p), inst[p].history).re_urls)
    /\ [][\A p, q \in DOMAIN inst :
            (p # q /\ inst'[p] # inst[p]) => inst'[q] = inst[q]]_vars

\* both instances have finished a call, with different charsets and results
C9_Witness ==
    /\ Ready(1) /\ Ready(2)
    /\ inst[1].history = <<4>> /\ inst[2].history = <<4, 2>>
    /\ inst[1].encoding = "ascii" /\ inst[2].encoding = "utf-8"
    /\ Len(inst[1].re_urls) = 1 /\ Len(inst[2].re_urls) = 3

====
